---- MODULE Spec2Model ----
(***************************************************************************)
(* The CO2 dashboard notebook (co2_data_visualization_project.ipynb) and   *)
(* the tooltip-enabled button-group views (radio_button_group.ts and its   *)
(* checkbox twin) as state machines.                                       *)
(*                                                                         *)
(* A table is a sequence of rows, a row a function from column names to    *)
(* cells, a cell one of: a missing value (NaN), a string, a finite number  *)
(* (an exact fraction n/d in lowest terms, d >= 1) or a signed infinity    *)
(* (what float division by zero produces).  The CSV parses to strings,     *)
(* finite numbers and missing values; infinities arise only from division. *)
(***************************************************************************)
EXTENDS Integers, Sequences, FiniteSets, TLC

VARIABLES
    pc,                \* the notebook cell to run next, "served" or "failed"
    raw,               \* what the remote CSV parses to (fixed per behaviour)
    n_reads,           \* number of pd.read_csv calls made so far
    df,                \* the notebook's global table
    year_slider,       \* value of the IntSlider
    yaxis_co2,         \* value of the first RadioButtonGroup
    yaxis_co2_source,  \* value of the second RadioButtonGroup
    co2_pipeline,      \* current evaluation of the three reactive pipelines
    co2_vs_gdp_scatterplot_pipeline,
    co2_source_bar_pipeline,
    view_class,        \* which of the two view classes the view is
    model_tooltip,     \* the model's tooltip property: "null" or "Tooltip"
    tooltip_visible,   \* the Tooltip model's visible flag
    this_tooltip,      \* the view's tooltip field: "undefined", "view", "removed"
    view_phase,        \* "constructed", "initialized", "removed"
    listeners,         \* listeners registered on this.el, in registration order
    last_event         \* last mouse event dispatched on this.el, or "none"

nb_vars == <<pc, raw, n_reads, df, year_slider, yaxis_co2, yaxis_co2_source,
             co2_pipeline, co2_vs_gdp_scatterplot_pipeline,
             co2_source_bar_pipeline>>
tt_vars == <<view_class, model_tooltip, tooltip_visible, this_tooltip,
             view_phase, listeners, last_event>>
vars == <<nb_vars, tt_vars>>

----------------------------------------------------------------------------
(* Bounds of the model                                                     *)

MaxRows == 2
MaxRenders == 4

----------------------------------------------------------------------------
(* Cells and float arithmetic                                              *)

Abs(x) == IF x < 0 THEN -x ELSE x

Sign(x) == IF x < 0 THEN -1 ELSE IF x > 0 THEN 1 ELSE 0

RECURSIVE Gcd(_, _)
Gcd(a, b) == IF b = 0 THEN a ELSE Gcd(b, a % b)

NaN == [t |-> "nan", s |-> "", n |-> 0, d |-> 1]

Str(x) == [t |-> "str", s |-> x, n |-> 0, d |-> 1]

Inf(sign) == [t |-> "inf", s |-> "", n |-> sign, d |-> 1]

\* the number n/d (d # 0), in lowest terms with a positive denominator
Rat(n, d) ==
    LET g == Gcd(Abs(n), Abs(d))
    IN  [t |-> "num", s |-> "", n |-> Sign(d) * (n \div g), d |-> Abs(d) \div g]

Num(i) == Rat(i, 1)

IsNA(c) == c.t = "nan"

\* a / b on two float cells: x/0 is +-inf, 0/0 and anything with NaN is NaN
TrueDiv(a, b) ==
    IF IsNA(a) \/ IsNA(b) THEN NaN
    ELSE IF b.n = 0 THEN (IF a.n = 0 THEN NaN ELSE Inf(Sign(a.n)))
    ELSE Rat(a.n * b.d, a.d * b.n)

Add(a, b) == Rat(a.n * b.d + b.n * a.d, a.d * b.d)

RECURSIVE SumCells(_)
SumCells(cells) ==
    IF cells = <<>> THEN Num(0)
    ELSE Add(SumCells(Tail(cells)), Head(cells))

MeanCells(cells) ==
    LET total == SumCells(cells)
    IN  Rat(total.n, total.d * Len(cells))

----------------------------------------------------------------------------
(* The notebook: loading and cleaning                                      *)

Columns ==
    {"country", "year", "population", "gdp", "co2", "co2_per_capita",
     "coal_co2", "oil_co2", "gas_co2"}

FillValue == 0

FillnaOffByOne(table, value) ==
    [i \in DOMAIN table |->
        [c \in DOMAIN table[i] |->
            IF IsNA(table[i][c]) THEN Num(value - 1) ELSE table[i][c]]]

\* df.fillna(value): every missing cell of every column becomes value
Fillna(table, value) ==
    [i \in DOMAIN table |->
        [c \in DOMAIN table[i] |->
            IF IsNA(table[i][c]) THEN Num(value) ELSE table[i][c]]]

\* np.where(cond, x, y) for one element
NpWhere(cond, x, y) == IF cond THEN x ELSE y

GdpPerCapitaUnguarded(row) == TrueDiv(row["gdp"], row["population"])

GdpPerCapitaSwapped(row) ==
    NpWhere(row["population"] # Num(0),
            TrueDiv(row["population"], row["gdp"]), Num(0))

\* np.where(df['population']!=0, df['gdp']/df['population'], 0) for one row
GdpPerCapita(row) ==
    NpWhere(row["population"] # Num(0),
            TrueDiv(row["gdp"], row["population"]), Num(0))

\* df['gdp_per_capita'] = ...: the column is appended to every row
AssignGdpPerCapita(table) ==
    [i \in DOMAIN table |->
        [c \in DOMAIN table[i] \cup {"gdp_per_capita"} |->
            IF c = "gdp_per_capita" THEN GdpPerCapita(table[i])
            ELSE table[i][c]]]

----------------------------------------------------------------------------
(* The reactive pipelines: filter, groupby, aggregate, sort                 *)

continents ==
    {"World", "Asia", "Oceania", "Europe", "Africa", "North America",
     "South America", "Antarctica"}

continents_excl_world ==
    {"Asia", "Oceania", "Europe", "Africa", "North America",
     "South America", "Antarctica"}

YearStart == 1750
YearEnd == 2020
YearStep == 5
YearDefault == 1850

\* the values the IntSlider can be dragged to
YearSliderValues ==
    {y \in YearStart..YearEnd : (y - YearStart) % YearStep = 0}

yaxis_co2_options == <<"co2", "co2_per_capita">>

yaxis_co2_source_options == <<"coal_co2", "oil_co2", "gas_co2">>

\* Python's order on the strings that occur as country names
NameOrder ==
    <<"Africa", "Antarctica", "Asia", "Europe", "France", "Germany",
      "North America", "Oceania", "South America", "World">>

NameRank(name) == CHOOSE i \in 1..Len(NameOrder) : NameOrder[i] = name

\* the order groupby sorts its keys by: numbers before strings
CellLess(a, b) ==
    IF a.t # b.t THEN a.t = "num" /\ b.t = "str"
    ELSE IF a.t = "num" THEN a.n * b.d < b.n * a.d
    ELSE IF a.t = "str" THEN NameRank(a.s) < NameRank(b.s)
    ELSE FALSE

CellLeq(a, b) == a = b \/ CellLess(a, b)

\* series.isin(names)
IsIn(c, names) == c.t = "str" /\ c.s \in names

KeyLess(k1, k2) ==
    \E i \in 1..Len(k1) :
        /\ \A j \in 1..(i - 1) : k1[j] = k2[j]
        /\ CellLess(k1[i], k2[i])

KeyOf(row, by) == [j \in 1..Len(by) |-> row[by[j]]]

RECURSIVE SortKeys(_)
SortKeys(keys) ==
    IF keys = {} THEN <<>>
    ELSE LET least == CHOOSE k \in keys :
                          \A other \in keys \ {k} : KeyLess(k, other)
         IN  <<least>> \o SortKeys(keys \ {least})

Mean(table, col) == MeanCells([i \in DOMAIN table |-> table[i][col]])

Sum(table, col) == SumCells([i \in DOMAIN table |-> table[i][col]])

Aggregate(agg, table, col) ==
    IF agg = "mean" THEN Mean(table, col) ELSE Sum(table, col)

\* table.groupby(by)[col].agg().to_frame().reset_index(): one row per key,
\* keys in sorted order, holding the key columns and the aggregated column
GroupBy(table, by, col, agg) ==
    LET keys == SortKeys({KeyOf(table[i], by) : i \in DOMAIN table})
        Members(k) == SelectSeq(table, LAMBDA row : KeyOf(row, by) = k)
    IN  [g \in 1..Len(keys) |->
            [c \in {by[j] : j \in 1..Len(by)} \cup {col} |->
                IF c = col THEN Aggregate(agg, Members(keys[g]), col)
                ELSE keys[g][CHOOSE j \in 1..Len(by) : by[j] = c]]]

\* one step of the insertion sort: row goes after every row not above it
InsertBy(sorted, row, col) ==
    LET p == Cardinality({i \in DOMAIN sorted : CellLeq(sorted[i][col], row[col])})
    IN  SubSeq(sorted, 1, p) \o <<row>> \o SubSeq(sorted, p + 1, Len(sorted))

\* table.sort_values(by=col).reset_index(drop=True); ties keep their order
RECURSIVE SortValues(_, _)
SortValues(table, col) ==
    IF table = <<>> THEN <<>>
    ELSE InsertBy(SortValues(SubSeq(table, 1, Len(table) - 1), col),
                  table[Len(table)], col)

Co2FilterNoIsin(row, year) == CellLeq(row["year"], Num(year))

\* (idf.year <= year_slider) & (idf.country.isin(continents))
Co2Filter(row, year) ==
    /\ CellLeq(row["year"], Num(year))
    /\ IsIn(row["country"], continents)

ScatterFilterWithContinents(row, year) == row["year"] = Num(year)

\* (idf.year == year_slider) & (~ (idf.country.isin(continents)))
ScatterFilter(row, year) ==
    /\ row["year"] = Num(year)
    /\ ~ IsIn(row["country"], continents)

\* (idf.year == year_slider) & (idf.country.isin(continents_excl_world))
SourceBarFilter(row, year) ==
    /\ row["year"] = Num(year)
    /\ IsIn(row["country"], continents_excl_world)

EvalCo2Pipeline(table, year, yaxis) ==
    SortValues(
        GroupBy(SelectSeq(table, LAMBDA row : Co2Filter(row, year)),
                <<"country", "year">>, yaxis, "mean"),
        "year")

EvalScatterPipeline(table, year) ==
    SortValues(
        GroupBy(SelectSeq(table, LAMBDA row : ScatterFilter(row, year)),
                <<"country", "year", "gdp_per_capita">>, "co2", "mean"),
        "year")

SourceBarMeanNotSum(table, year, source) ==
    SortValues(
        GroupBy(SelectSeq(table, LAMBDA row : SourceBarFilter(row, year)),
                <<"year", "country">>, source, "mean"),
        "year")

EvalSourceBarPipeline(table, year, source) ==
    SortValues(
        GroupBy(SelectSeq(table, LAMBDA row : SourceBarFilter(row, year)),
                <<"year", "country">>, source, "sum"),
        "year")

\* the widgets each pipeline expression references as objects
Co2PipelineDeps == {"year_slider", "yaxis_co2"}

ScatterPipelineDepsFrozen == {}

ScatterPipelineDeps == {"year_slider"}

SourceBarPipelineDeps == {"year_slider", "yaxis_co2_source"}

----------------------------------------------------------------------------
(* The notebook's cells, in order, and the widget callbacks                *)

\* what a pipeline shows after a change of widget: re-evaluated when the
\* pipeline references the widget, left as it was otherwise
Refresh(deps, widget, current, fresh) ==
    IF widget \in deps THEN fresh ELSE current

\* df = pd.read_csv(url): the read succeeds
ReadCsv ==
    /\ pc = "read_csv"
    /\ n_reads' = n_reads + 1
    /\ df' = raw
    /\ pc' = "clean_up"
    /\ UNCHANGED <<raw, year_slider, yaxis_co2, yaxis_co2_source, co2_pipeline,
                   co2_vs_gdp_scatterplot_pipeline, co2_source_bar_pipeline>>
    /\ UNCHANGED tt_vars

ReadCsvSwallowed ==
    /\ pc = "read_csv"
    /\ n_reads' = n_reads + 1
    /\ df' = <<>>
    /\ pc' = "clean_up"
    /\ UNCHANGED <<raw, year_slider, yaxis_co2, yaxis_co2_source, co2_pipeline,
                   co2_vs_gdp_scatterplot_pipeline, co2_source_bar_pipeline>>
    /\ UNCHANGED tt_vars

\* df = pd.read_csv(url): the read raises (network or parse failure); nothing
\* catches it and no later cell runs
ReadCsvFails ==
    /\ pc = "read_csv"
    /\ n_reads' = n_reads + 1
    /\ pc' = "failed"
    /\ UNCHANGED <<raw, df, year_slider, yaxis_co2, yaxis_co2_source,
                   co2_pipeline, co2_vs_gdp_scatterplot_pipeline,
                   co2_source_bar_pipeline>>
    /\ UNCHANGED tt_vars

\* the Data Clean Up cell
CleanUp ==
    /\ pc = "clean_up"
    /\ df' = AssignGdpPerCapita(Fillna(df, FillValue))
    /\ pc' = "pipelines"
    /\ UNCHANGED <<raw, n_reads, year_slider, yaxis_co2, yaxis_co2_source,
                   co2_pipeline, co2_vs_gdp_scatterplot_pipeline,
                   co2_source_bar_pipeline>>
    /\ UNCHANGED tt_vars

\* idf = df.interactive(), the three widgets and the three pipelines: each
\* widget starts at its value= (the slider) or its first option (the radio
\* groups) and each pipeline is evaluated once with those values
BuildPipelines ==
    /\ pc = "pipelines"
    /\ year_slider' = YearDefault
    /\ yaxis_co2' = yaxis_co2_options[1]
    /\ yaxis_co2_source' = yaxis_co2_source_options[1]
    /\ co2_pipeline' = EvalCo2Pipeline(df, year_slider', yaxis_co2')
    /\ co2_vs_gdp_scatterplot_pipeline' = EvalScatterPipeline(df, year_slider')
    /\ co2_source_bar_pipeline' =
           EvalSourceBarPipeline(df, year_slider', yaxis_co2_source')
    /\ pc' = "template"
    /\ UNCHANGED <<raw, n_reads, df>>
    /\ UNCHANGED tt_vars

\* FastListTemplate(...) and .servable()
ServeTemplate ==
    /\ pc = "template"
    /\ pc' = "served"
    /\ UNCHANGED <<raw, n_reads, df, year_slider, yaxis_co2, yaxis_co2_source,
                   co2_pipeline, co2_vs_gdp_scatterplot_pipeline,
                   co2_source_bar_pipeline>>
    /\ UNCHANGED tt_vars

\* what a change of widget leaves of the views, given the new widget values
Recompute(widget) ==
    /\ co2_pipeline' =
           Refresh(Co2PipelineDeps, widget, co2_pipeline,
                   EvalCo2Pipeline(df', year_slider', yaxis_co2'))
    /\ co2_vs_gdp_scatterplot_pipeline' =
           Refresh(ScatterPipelineDeps, widget, co2_vs_gdp_scatterplot_pipeline,
                   EvalScatterPipeline(df', year_slider'))
    /\ co2_source_bar_pipeline' =
           Refresh(SourceBarPipelineDeps, widget, co2_source_bar_pipeline,
                   EvalSourceBarPipeline(df', year_slider', yaxis_co2_source'))

SetYearSliderInPlace(value) ==
    /\ pc = "served"
    /\ value # year_slider
    /\ year_slider' = value
    /\ df' = SelectSeq(df, LAMBDA row : CellLeq(row["year"], Num(value)))
    /\ UNCHANGED <<yaxis_co2, yaxis_co2_source>>
    /\ Recompute("year_slider")
    /\ UNCHANGED <<pc, raw, n_reads>>
    /\ UNCHANGED tt_vars

\* the user drags the year slider to value
SetYearSlider(value) ==
    /\ pc = "served"
    /\ value # year_slider
    /\ year_slider' = value
    /\ UNCHANGED <<yaxis_co2, yaxis_co2_source, df>>
    /\ Recompute("year_slider")
    /\ UNCHANGED <<pc, raw, n_reads>>
    /\ UNCHANGED tt_vars

\* the user picks another button of yaxis_co2
SetYaxisCo2(value) ==
    /\ pc = "served"
    /\ value # yaxis_co2
    /\ yaxis_co2' = value
    /\ UNCHANGED <<year_slider, yaxis_co2_source, df>>
    /\ Recompute("yaxis_co2")
    /\ UNCHANGED <<pc, raw, n_reads>>
    /\ UNCHANGED tt_vars

\* the user picks another button of yaxis_co2_source
SetYaxisCo2Source(value) ==
    /\ pc = "served"
    /\ value # yaxis_co2_source
    /\ yaxis_co2_source' = value
    /\ UNCHANGED <<year_slider, yaxis_co2, df>>
    /\ Recompute("yaxis_co2_source")
    /\ UNCHANGED <<pc, raw, n_reads>>
    /\ UNCHANGED tt_vars

----------------------------------------------------------------------------
(* The button-group views with a tooltip (RadioButtonGroupView and         *)
(* CheckboxButtonGroupView hold the same code)                             *)

ViewClasses == {"RadioButtonGroupView", "CheckboxButtonGroupView"}

\* what super.children() yields
SuperChildren == <<>>

\* children(): the parent's children, then the tooltip view if there is one
Children ==
    SuperChildren \o (IF this_tooltip # "undefined" THEN <<"tooltip">> ELSE <<>>)

ToggleAlwaysShow(visible, current) ==
    IF this_tooltip # "undefined" THEN TRUE ELSE current

\* toggle(visible): this.tooltip?.model.setv({visible})
Toggle(visible, current) ==
    IF this_tooltip # "undefined" THEN visible ELSE current

\* dispatching an event of one type: its listeners run in registration order
RECURSIVE Dispatch(_, _, _)
Dispatch(registered, type, current) ==
    IF registered = <<>> THEN current
    ELSE Dispatch(Tail(registered), type,
                  IF Head(registered).type = type
                  THEN Toggle(Head(registered).visible, current)
                  ELSE current)

\* lazy_initialize(): what this.tooltip is afterwards, given model.tooltip
BuildTooltip(tooltip) ==
    IF tooltip # "null" THEN "view" ELSE this_tooltip

LazyInitialize ==
    /\ view_phase = "constructed"
    /\ this_tooltip' = BuildTooltip(model_tooltip)
    /\ view_phase' = "initialized"
    /\ UNCHANGED <<view_class, model_tooltip, tooltip_visible, listeners,
                   last_event>>
    /\ UNCHANGED nb_vars

\* render(): two more listeners on this.el, every time it is called
Render ==
    /\ view_phase = "initialized"
    /\ Len(listeners) < 2 * MaxRenders
    /\ listeners' = listeners \o
           << [type |-> "mouseenter", visible |-> TRUE],
              [type |-> "mouseleave", visible |-> FALSE] >>
    /\ UNCHANGED <<view_class, model_tooltip, tooltip_visible, this_tooltip,
                   view_phase, last_event>>
    /\ UNCHANGED nb_vars

\* the pointer enters or leaves the rendered element
MouseEvent(type) ==
    /\ view_phase = "initialized"
    /\ listeners # <<>>
    /\ tooltip_visible' = Dispatch(listeners, type, tooltip_visible)
    /\ last_event' = type
    /\ UNCHANGED <<view_class, model_tooltip, this_tooltip, view_phase,
                   listeners>>
    /\ UNCHANGED nb_vars

MouseEnter == MouseEvent("mouseenter")

MouseLeave == MouseEvent("mouseleave")

\* remove(): this.tooltip?.remove(), then the view itself
Remove ==
    /\ view_phase \in {"constructed", "initialized"}
    /\ this_tooltip' = IF this_tooltip = "view" THEN "removed" ELSE this_tooltip
    /\ view_phase' = "removed"
    /\ UNCHANGED <<view_class, model_tooltip, tooltip_visible, listeners,
                   last_event>>
    /\ UNCHANGED nb_vars

----------------------------------------------------------------------------
(* Inputs and specifications                                               *)

Tables(rows) == UNION {[1..n -> rows] : n \in 0..MaxRows}

DashRow(country, year, k) ==
    [country |-> country, year |-> year, population |-> Num(100),
     gdp |-> Num(1000 * k), co2 |-> Num(10 * k), co2_per_capita |-> Num(k),
     coal_co2 |-> Num(3 * k), oil_co2 |-> Num(5 * k), gas_co2 |-> Num(7 * k)]

DashRows ==
    {DashRow(c, y, 1) : c \in {Str("World"), Str("Asia"), Str("France"), NaN},
                        y \in {Num(1850), Num(1855), NaN}}
    \cup {DashRow(Str("Asia"), Num(1850), 2), DashRow(Str("France"), Num(1850), 2)}

Masked(row, mask) == [c \in DOMAIN row |-> IF c \in mask THEN NaN ELSE row[c]]

CleanRow(gdp, population) ==
    [country |-> Str("World"), year |-> Num(1850), population |-> Num(population),
     gdp |-> Num(gdp), co2 |-> Num(10), co2_per_capita |-> Num(1),
     coal_co2 |-> Num(3), oil_co2 |-> Num(5), gas_co2 |-> Num(7)]

CleanMasks ==
    {{}, Columns, {"population"}, {"gdp"}, {"gdp", "population"},
     {"country", "year"},
     {"co2", "co2_per_capita", "coal_co2", "oil_co2", "gas_co2"}}

CleanRows ==
    {Masked(CleanRow(v[1], v[2]), mask) :
        v \in {<<1000, 100>>, <<1000, 0>>, <<0, 0>>, <<7, 2>>, <<1000, -4>>,
               <<-6, 3>>},
        mask \in CleanMasks}

\* slider positions tried: the rows of DashRows have year 1850, 1855 or none,
\* so these cover a slider below, at, between and above every row's year
YearInputs ==
    {YearStart, YearDefault - YearStep, YearDefault, YearDefault + YearStep,
     YearEnd} \cap YearSliderValues

NotebookInit(tables) ==
    /\ pc = "read_csv"
    /\ raw \in tables
    /\ n_reads = 0
    /\ df = <<>>
    /\ year_slider = 0
    /\ yaxis_co2 = ""
    /\ yaxis_co2_source = ""
    /\ co2_pipeline = <<>>
    /\ co2_vs_gdp_scatterplot_pipeline = <<>>
    /\ co2_source_bar_pipeline = <<>>

TooltipInit(classes, tooltips) ==
    /\ view_class \in classes
    /\ model_tooltip \in tooltips
    /\ tooltip_visible \in (IF model_tooltip = "null" THEN {FALSE} ELSE BOOLEAN)
    /\ this_tooltip = "undefined"
    /\ view_phase = "constructed"
    /\ listeners = <<>>
    /\ last_event = "none"

Init ==
    /\ NotebookInit(Tables(DashRows))
    /\ TooltipInit({"RadioButtonGroupView"}, {"null"})

Next ==
    \/ ReadCsv
    \/ ReadCsvFails
    \/ CleanUp
    \/ BuildPipelines
    \/ ServeTemplate
    \/ \E value \in YearInputs : SetYearSlider(value)
    \/ \E i \in DOMAIN yaxis_co2_options : SetYaxisCo2(yaxis_co2_options[i])
    \/ \E i \in DOMAIN yaxis_co2_source_options :
           SetYaxisCo2Source(yaxis_co2_source_options[i])

Spec == Init /\ [][Next]_vars

InitClean ==
    /\ NotebookInit(Tables(CleanRows))
    /\ TooltipInit({"RadioButtonGroupView"}, {"null"})

NextClean ==
    \/ ReadCsv
    \/ ReadCsvFails
    \/ CleanUp

SpecClean == InitClean /\ [][NextClean]_vars

InitTooltip ==
    /\ NotebookInit({<<>>})
    /\ TooltipInit(ViewClasses, {"null", "Tooltip"})

NextTooltip ==
    \/ LazyInitialize
    \/ Render
    \/ MouseEnter
    \/ MouseLeave
    \/ Remove

SpecTooltip == InitTooltip /\ [][NextTooltip]_vars

----------------------------------------------------------------------------
(* The claims                                                              *)

Cleaned == pc \in {"pipelines", "template", "served"}

Built == pc \in {"template", "served"}

ZeroFilled(c) == IF IsNA(c) THEN Num(0) ELSE c

\* C1: after the cleaning step, in every row, gdp and population are the raw
\* values with missing ones replaced by 0, and gdp_per_capita is a number:
\* gdp/population when population is nonzero, 0 when population is 0; so
\* gdp=1000, population=0 gives 0 and gdp=1000, population=100 gives 10.
C1_GdpPerCapitaGuarded ==
    Cleaned =>
        /\ Len(df) = Len(raw)
        /\ \A i \in DOMAIN df :
            LET g == df[i]["gdp"]
                p == df[i]["population"]
                q == df[i]["gdp_per_capita"]
            IN  /\ g = ZeroFilled(raw[i]["gdp"])
                /\ p = ZeroFilled(raw[i]["population"])
                /\ q.t = "num" /\ q.d >= 1
                /\ p.n # 0 => q.n * p.n * g.d = g.n * p.d * q.d
                /\ p.n = 0 => q.n = 0
                /\ (g.n = 1000 /\ g.d = 1 /\ p.n = 0) => (q.n = 0 /\ q.d = 1)
                /\ (g.n = 1000 /\ g.d = 1 /\ p.n = 100 /\ p.d = 1)
                       => (q.n = 10 /\ q.d = 1)

\* C1 witness: a cleaned table with a row whose population was missing and
\* whose gdp is 1000, and a row with gdp 1000 and population 100.
C1_Witness ==
    /\ Cleaned
    /\ \E i \in DOMAIN df :
        /\ IsNA(raw[i]["population"])
        /\ df[i]["gdp"] = Num(1000)
        /\ df[i]["gdp_per_capita"] = Num(0)
    /\ \E i \in DOMAIN df :
        /\ df[i]["gdp"] = Num(1000)
        /\ df[i]["population"] = Num(100)
        /\ df[i]["gdp_per_capita"] = Num(10)

\* C2: after the cleaning step no cell of any column, the appended
\* gdp_per_capita included, is a missing value, whichever cells of the raw
\* table were missing.
C2_NoMissingAfterCleaning ==
    Cleaned =>
        \A i \in DOMAIN df :
            /\ DOMAIN df[i] = Columns \cup {"gdp_per_capita"}
            /\ \A c \in DOMAIN df[i] : ~ IsNA(df[i][c])

\* C2 witness: a cleaned table one raw row of which had every cell missing
\* and another only some.
C2_Witness ==
    /\ Cleaned
    /\ \E i \in DOMAIN raw : \A c \in Columns : IsNA(raw[i][c])
    /\ \E i \in DOMAIN raw :
        /\ IsNA(raw[i]["gdp"])
        /\ ~ IsNA(raw[i]["population"])

RawNonNegative ==
    \A i \in DOMAIN raw :
        /\ IsNA(raw[i]["population"]) \/ raw[i]["population"].n >= 0
        /\ IsNA(raw[i]["gdp"]) \/ raw[i]["gdp"].n >= 0

\* C7 as stated: in every row of the cleaned table population and
\* gdp_per_capita are non-negative, whatever the raw table.
C7_NonNegativeAnyRaw ==
    Cleaned =>
        \A i \in DOMAIN df :
            /\ df[i]["population"].n >= 0
            /\ df[i]["gdp_per_capita"].n >= 0

\* C7 amended: when no raw row holds a negative population or a negative
\* gdp, in every row of the cleaned table population and gdp_per_capita are
\* numbers and non-negative.
C7_NonNegativeGivenNonNegativeRaw ==
    (Cleaned /\ RawNonNegative) =>
        \A i \in DOMAIN df :
            /\ df[i]["population"].t = "num"
            /\ df[i]["population"].n >= 0
            /\ df[i]["gdp_per_capita"].t = "num"
            /\ df[i]["gdp_per_capita"].n >= 0

\* C7 witness: a cleaned table from a raw table without negative values, with
\* a missing population in one row and a positive gdp_per_capita in another.
C7_Witness ==
    /\ Cleaned
    /\ RawNonNegative
    /\ \E i \in DOMAIN raw : IsNA(raw[i]["population"])
    /\ \E i \in DOMAIN df : df[i]["gdp_per_capita"].n > 0

----------------------------------------------------------------------------
SourceColumns == {"coal_co2", "oil_co2", "gas_co2"}

\* C3: whatever the slider shows after any widget changes, every row of
\* co2_pipeline has a year at most the slider's value and a country that is
\* one of the aggregate-region names.
C3_Co2PipelineRows ==
    Built =>
        \A i \in DOMAIN co2_pipeline :
            LET row == co2_pipeline[i]
            IN  /\ row["year"].t = "num"
                /\ row["year"].n <= year_slider * row["year"].d
                /\ row["country"].t = "str"
                /\ row["country"].s \in continents

\* C3 witness: the slider has been moved, the view holds a row, and the
\* table holds a later year's row and a row of a non-aggregate country.
C3_Witness ==
    /\ pc = "served"
    /\ year_slider # YearDefault
    /\ co2_pipeline # <<>>
    /\ \E i \in DOMAIN df : df[i]["year"].n > year_slider
    /\ \E i \in DOMAIN df : df[i]["country"] = Str("France")

\* C4: whatever the slider shows after any widget changes, every row of
\* co2_vs_gdp_scatterplot_pipeline has exactly the slider's year and a
\* country that is not one of the aggregate-region names.
C4_ScatterPipelineRows ==
    Built =>
        \A i \in DOMAIN co2_vs_gdp_scatterplot_pipeline :
            LET row == co2_vs_gdp_scatterplot_pipeline[i]
            IN  /\ row["year"].t = "num"
                /\ row["year"].n = year_slider
                /\ row["year"].d = 1
                /\ ~ (row["country"].t = "str" /\ row["country"].s \in continents)

\* C4 witness: the slider has been moved, the view holds a row, and the
\* table holds an aggregate region's row of the slider's year.
C4_Witness ==
    /\ pc = "served"
    /\ year_slider # YearDefault
    /\ co2_vs_gdp_scatterplot_pipeline # <<>>
    /\ \E i \in DOMAIN df :
        /\ df[i]["year"] = Num(year_slider)
        /\ IsIn(df[i]["country"], continents)

RowsOf(name, year) ==
    SelectSeq(df, LAMBDA row : row["country"] = Str(name) /\ row["year"] = Num(year))

\* C5 as stated: for the slider's year, co2_source_bar_pipeline holds, for
\* each aggregate region with rows in that year, the aggregate of all three
\* of coal_co2, oil_co2 and gas_co2, and it holds no row of another year.
C5_AllThreeSources ==
    Built =>
        /\ \A name \in continents :
            RowsOf(name, year_slider) # <<>> =>
                \E j \in DOMAIN co2_source_bar_pipeline :
                    LET row == co2_source_bar_pipeline[j]
                    IN  /\ row["country"] = Str(name)
                        /\ \A source \in SourceColumns :
                            /\ source \in DOMAIN row
                            /\ row[source] = Sum(RowsOf(name, year_slider), source)
        /\ \A j \in DOMAIN co2_source_bar_pipeline :
            co2_source_bar_pipeline[j]["year"] = Num(year_slider)

\* C5 amended: for the slider's year, co2_source_bar_pipeline holds, for each
\* aggregate region other than World with rows in that year, exactly one row:
\* the sum over those rows of the one sub-quantity yaxis_co2_source selects,
\* and no other sub-quantity; it holds no row of another year and no row of
\* World or of a country.
C5_SelectedSourceSum ==
    Built =>
        /\ \A name \in continents_excl_world :
            RowsOf(name, year_slider) # <<>> =>
                Cardinality({j \in DOMAIN co2_source_bar_pipeline :
                    co2_source_bar_pipeline[j]["country"] = Str(name)}) = 1
        /\ \A j \in DOMAIN co2_source_bar_pipeline :
            LET row == co2_source_bar_pipeline[j]
            IN  /\ DOMAIN row = {"year", "country", yaxis_co2_source}
                /\ yaxis_co2_source \in SourceColumns
                /\ row["year"] = Num(year_slider)
                /\ row["country"].t = "str"
                /\ row["country"].s \in continents_excl_world
                /\ row[yaxis_co2_source] =
                       Sum(RowsOf(row["country"].s, year_slider), yaxis_co2_source)

\* C5 witness: the slider and yaxis_co2_source have been changed, and the view
\* holds the sum over two rows of one region while the table also holds a
\* World row of another year.
C5_Witness ==
    /\ pc = "served"
    /\ year_slider # YearDefault
    /\ yaxis_co2_source = "gas_co2"
    /\ Len(df) = 2
    /\ Len(co2_source_bar_pipeline) = 1
    /\ co2_source_bar_pipeline[1]["gas_co2"] = Num(14)

\* C6: once the cleaning step has run, no step changes the table: not a
\* change of the slider or of either radio group, nor the re-evaluation of the
\* views that follows it.
C6_TableFrozenAfterCleaning == [][Cleaned => df' = df]_vars

\* C6 witness: all three widgets have been changed and the table is still the
\* cleaned raw table.
C6_Witness ==
    /\ pc = "served"
    /\ year_slider # YearDefault
    /\ yaxis_co2 # yaxis_co2_options[1]
    /\ yaxis_co2_source # yaxis_co2_source_options[1]
    /\ df # <<>>
    /\ df = AssignGdpPerCapita(Fillna(raw, FillValue))

\* C8: between widget changes each view is its expression applied to the
\* cleaned table with the widgets' current values; none shows the result of
\* an earlier widget value.
C8_ViewsFollowWidgets ==
    Built =>
        /\ co2_pipeline = EvalCo2Pipeline(df, year_slider, yaxis_co2)
        /\ co2_vs_gdp_scatterplot_pipeline = EvalScatterPipeline(df, year_slider)
        /\ co2_source_bar_pipeline =
               EvalSourceBarPipeline(df, year_slider, yaxis_co2_source)

\* C8 witness: every widget has been changed and every view holds a row.
C8_Witness ==
    /\ pc = "served"
    /\ year_slider = YearDefault + YearStep
    /\ yaxis_co2 = "co2_per_capita"
    /\ yaxis_co2_source = "oil_co2"
    /\ co2_pipeline # <<>>
    /\ co2_vs_gdp_scatterplot_pipeline # <<>>
    /\ co2_source_bar_pipeline # <<>>

NothingBuilt ==
    /\ year_slider = 0
    /\ yaxis_co2 = ""
    /\ yaxis_co2_source = ""
    /\ co2_pipeline = <<>>
    /\ co2_vs_gdp_scatterplot_pipeline = <<>>
    /\ co2_source_bar_pipeline = <<>>

\* C9: the CSV is read exactly once, before cleaning and before any view is
\* built, and never again on widget changes; a failed read is final: no
\* retry, no table, no cleaning, no widget, no view, no served template.
C9_ReadOnceFailureFatal ==
    /\ n_reads = (IF pc = "read_csv" THEN 0 ELSE 1)
    /\ pc \in {"read_csv", "failed"} => (df = <<>> /\ NothingBuilt)
    /\ pc = "clean_up" => (df = raw /\ NothingBuilt)
    /\ pc = "pipelines" => NothingBuilt
    /\ pc \in {"pipelines", "template", "served"} => Len(df) = Len(raw)
    /\ ~ (pc = "failed" /\ ENABLED Next)

\* C9 witness: the read of a non-empty CSV has failed.
C9_Witness ==
    /\ pc = "failed"
    /\ n_reads = 1
    /\ raw # <<>>

----------------------------------------------------------------------------
\* C10: for a view of either class that has been lazily initialized and
\* rendered at least once: with a tooltip on the model, after any mouseenter
\* and mouseleave events the tooltip is visible exactly when the last event
\* was mouseenter, however many times render() added its listeners; with no
\* tooltip on the model, no tooltip view exists, children() yields the
\* parent's children only, and the events and remove() change nothing of a
\* tooltip.
C10_TooltipFollowsPointer ==
    /\ (view_phase = "initialized" /\ model_tooltip # "null") =>
        /\ this_tooltip = "view"
        /\ Children = SuperChildren \o <<"tooltip">>
        /\ last_event # "none" =>
               (tooltip_visible <=> last_event = "mouseenter")
    /\ model_tooltip = "null" =>
        /\ this_tooltip = "undefined"
        /\ Children = SuperChildren
        /\ tooltip_visible = FALSE

\* C10 witness: a view with a tooltip, rendered more than once, shows the
\* tooltip after a mouseenter.
C10_Witness ==
    /\ model_tooltip = "Tooltip"
    /\ view_phase = "initialized"
    /\ Len(listeners) >= 4
    /\ last_event = "mouseenter"
    /\ tooltip_visible

====
